---------------------------- MODULE Spec2Model ----------------------------
(***************************************************************************)
(* A model of yasa/main.py: the spindle detector spindles_detect with its  *)
(* helpers _events_distance_fill, _index_to_events, get_bool_vector and    *)
(* moving_transform.                                                       *)
(*                                                                         *)
(* Sample indices are 0-based as in the source; a sequence holds sample j  *)
(* at position j + 1.  The signal's values are not modelled: what the      *)
(* criteria make of them is the per-sample vote idx_sum, drawn from        *)
(* VoteValues, and whether scipy finds a peak in a run is a choice.        *)
(* Times in seconds, durations and min_distance are numpy float64 values   *)
(* and are computed as the source computes them, in IEEE-754 binary64      *)
(* with round-to-nearest-even (the definitions Big... and F... below).     *)
(***************************************************************************)
EXTENDS Integers, Sequences, FiniteSets, TLC

\* ------------------------------------------------------------------------
\* Bounds of the model
\* ------------------------------------------------------------------------
\* longest signal handed to spindles_detect (samples after resampling)
MaxN == 9
\* longest signal handed to get_bool_vector, and rows of its event table
MaskN == 16
MaxEvents == 2
\* longest signal handed to moving_transform
MaxMT == 8
\* longest signal spindles_detect gets with every setting of its parameters
ShortN == 5

\* ------------------------------------------------------------------------
\* Natural numbers of any size: little-endian sequences of limbs < Radix,
\* without leading zero limbs (zero is << >>).  They carry the 53-bit
\* significands of float64 values and their exact sums and products.
\* ------------------------------------------------------------------------
Radix == 2^14
Pow2(k) == 2^k
Min(a, b) == IF a <= b THEN a ELSE b
Max(a, b) == IF a >= b THEN a ELSE b

RECURSIVE BigNorm(_)
BigNorm(a) == IF a = <<>> THEN a
              ELSE IF a[Len(a)] = 0 THEN BigNorm(SubSeq(a, 1, Len(a) - 1)) ELSE a

RECURSIVE BigOfInt(_)
BigOfInt(k) == IF k = 0 THEN <<>> ELSE <<k % Radix>> \o BigOfInt(k \div Radix)

RECURSIVE IntOfBig(_)
IntOfBig(a) == IF a = <<>> THEN 0 ELSE a[1] + Radix * IntOfBig(Tail(a))

Limb(a, i) == IF i <= Len(a) THEN a[i] ELSE 0

RECURSIVE BigAddC(_, _, _)
BigAddC(a, b, c) ==
    IF a = <<>> /\ b = <<>> THEN (IF c = 0 THEN <<>> ELSE <<c>>)
    ELSE LET s == Limb(a, 1) + Limb(b, 1) + c
         IN <<s % Radix>> \o BigAddC(IF a = <<>> THEN a ELSE Tail(a),
                                     IF b = <<>> THEN b ELSE Tail(b), s \div Radix)
BigAdd(a, b) == BigAddC(a, b, 0)

RECURSIVE BigSubB(_, _, _)
BigSubB(a, b, c) ==
    IF a = <<>> THEN <<>>
    ELSE LET s == a[1] - Limb(b, 1) - c
         IN <<s % Radix>> \o BigSubB(Tail(a), IF b = <<>> THEN b ELSE Tail(b),
                                     IF s < 0 THEN 1 ELSE 0)
\* a - b for a >= b
BigSub(a, b) == BigNorm(BigSubB(a, b, 0))

RECURSIVE BigCmpAt(_, _, _)
BigCmpAt(a, b, i) == IF i = 0 THEN 0
                     ELSE IF a[i] < b[i] THEN -1
                     ELSE IF a[i] > b[i] THEN 1
                     ELSE BigCmpAt(a, b, i - 1)
BigCmp(a, b) == IF Len(a) < Len(b) THEN -1
                ELSE IF Len(a) > Len(b) THEN 1
                ELSE BigCmpAt(a, b, Len(a))

RECURSIVE BigMulSmallC(_, _, _)
BigMulSmallC(a, k, c) ==
    IF a = <<>> THEN BigOfInt(c)
    ELSE LET s == a[1] * k + c
         IN <<s % Radix>> \o BigMulSmallC(Tail(a), k, s \div Radix)
BigMulSmall(a, k) == BigNorm(BigMulSmallC(a, k, 0))

RECURSIVE BigMul(_, _)
BigMul(a, b) == IF b = <<>> \/ a = <<>> THEN <<>>
                ELSE BigAdd(BigMulSmall(a, b[1]),
                            LET r == BigMul(a, Tail(b))
                            IN IF r = <<>> THEN r ELSE <<0>> \o r)

RECURSIVE LimbBits(_)
LimbBits(v) == IF v = 0 THEN 0 ELSE 1 + LimbBits(v \div 2)
BitLen(a) == IF a = <<>> THEN 0 ELSE 14 * (Len(a) - 1) + LimbBits(a[Len(a)])

ShiftLeft(a, s) ==
    IF a = <<>> THEN a
    ELSE [i \in 1..(s \div 14) |-> 0] \o BigMulSmall(a, Pow2(s % 14))

\* the limbs of (r * Radix^Len(a) + a) \div k
RECURSIVE BigDivSmallQ(_, _, _)
BigDivSmallQ(a, k, r) ==
    IF a = <<>> THEN <<>>
    ELSE LET t == r * Radix + a[Len(a)]
         IN BigDivSmallQ(SubSeq(a, 1, Len(a) - 1), k, t % k) \o <<t \div k>>
ShiftRight(a, s) ==
    LET w == s \div 14
        b == IF w >= Len(a) THEN <<>> ELSE SubSeq(a, w + 1, Len(a))
    IN BigNorm(BigDivSmallQ(b, Pow2(s % 14), 0))

Bit(a, i) == (Limb(a, (i \div 14) + 1) \div Pow2(i % 14)) % 2

\* <<floor(r * 2^(i-1) / b), whether a remainder is left>> for r < 2b: one
\* quotient bit per step (the test on q only has the quotient computed at
\* every step)
RECURSIVE BigDivBits(_, _, _, _)
BigDivBits(r, b, i, q) ==
    IF i = 0 \/ Len(q) < 0 THEN <<q, r # <<>>>>
    ELSE IF BigCmp(r, b) >= 0
         THEN BigDivBits(BigMulSmall(BigSub(r, b), 2), b, i - 1,
                         BigAddC(BigMulSmall(q, 2), <<>>, 1))
         ELSE BigDivBits(BigMulSmall(r, 2), b, i - 1, BigMulSmall(q, 2))

\* ------------------------------------------------------------------------
\* float64 (no value of the model is negative, subnormal or infinite):
\* [m, e] is m * 2^e with m = 0 or 2^52 <= m < 2^53.
\* ------------------------------------------------------------------------
FZero == [m |-> <<>>, e |-> 0]

\* m * 2^e rounded to the nearest float64, ties to the even significand
RoundBig(m, e) ==
    LET L == BitLen(m)
    IN IF m = <<>> THEN FZero
       ELSE IF L <= 53 THEN [m |-> ShiftLeft(m, 53 - L), e |-> e - (53 - L)]
       ELSE LET s == L - 53
                q == ShiftRight(m, s)
                rem == BigSub(m, ShiftLeft(q, s))
                c == BigCmp(rem, ShiftLeft(<<1>>, s - 1))
                up == c > 0 \/ (c = 0 /\ Bit(q, 0) = 1)
                q2 == IF up THEN BigAdd(q, <<1>>) ELSE q
            IN IF BitLen(q2) = 54 THEN [m |-> ShiftRight(q2, 1), e |-> e + s + 1]
               ELSE [m |-> q2, e |-> e + s]

FOfInt(k) == RoundBig(BigOfInt(k), 0)
AlignM(x, y) == ShiftLeft(x.m, x.e - Min(x.e, y.e))
FCmp(x, y) == IF x.m = <<>> THEN (IF y.m = <<>> THEN 0 ELSE -1)
              ELSE IF y.m = <<>> THEN 1
              ELSE BigCmp(AlignM(x, y), AlignM(y, x))
FLess(x, y) == FCmp(x, y) < 0
FMul(x, y) == RoundBig(BigMul(x.m, y.m), x.e + y.e)
FAdd(x, y) == IF x.m = <<>> THEN y
              ELSE IF y.m = <<>> THEN x
              ELSE RoundBig(BigAdd(AlignM(x, y), AlignM(y, x)), Min(x.e, y.e))
\* x - y for x >= y
FSub(x, y) == IF y.m = <<>> THEN x
              ELSE RoundBig(BigSub(AlignM(x, y), AlignM(y, x)), Min(x.e, y.e))
\* x / y for y # 0: 57 quotient bits and a sticky bit, then rounded
FDiv(x, y) ==
    IF x.m = <<>> THEN FZero
    ELSE LET qr == BigDivBits(x.m, y.m, 57, <<>>)
         IN RoundBig(BigAddC(BigMulSmall(qr[1], 2), <<>>, IF qr[2] THEN 1 ELSE 0),
                     x.e - y.e - 57)
\* astype(int) of a value >= 0: the fraction is cut off
FTrunc(x) == IF x.m = <<>> THEN 0
             ELSE IF x.e >= 0 THEN IntOfBig(ShiftLeft(x.m, x.e))
             ELSE IntOfBig(ShiftRight(x.m, -x.e))
FIsInt(x) == x.m = <<>> \/ x.e >= 0
             \/ ShiftLeft(ShiftRight(x.m, -x.e), -x.e) = x.m
FCeil(x) == IF FIsInt(x) THEN FTrunc(x) ELSE FTrunc(x) + 1

\* <<Op(lo), ..., Op(hi)>>: a table computed once
RECURSIVE Tabulate(_, _, _)
Tabulate(Op(_), lo, hi) ==
    IF lo > hi THEN <<>>
    ELSE IF lo = hi THEN <<Op(lo)>>
    ELSE Tabulate(Op, lo, (lo + hi) \div 2)
         \o Tabulate(Op, ((lo + hi) \div 2) + 1, hi)

\* ------------------------------------------------------------------------
\* Inputs of the model
\* ------------------------------------------------------------------------
\* sampling rates handed to spindles_detect
SampFreqs == {100, 256}
\* freq_sp and freq_broad in Hz; the last of each fails the safety check
FreqSps == {<<11, 16>>, <<12, 15>>, <<16, 11>>}
FreqBroads == {<<1, 30>>, <<30, 1>>}
\* duration = (duration_min, duration_max), written in milliseconds: the
\* float64 handed to the code is the literal ms/1000
DurMsSeq == <<10, 20, 50>>
Durations == {<<10, 20>>, <<10, 50>>}
\* min_distance in ms: << >> is None
MinDistMsSeq == <<0, 30, 70>>
MinDistances == {<<>>, <<0>>, <<30>>, <<70>>}
\* the keys of thresh in the order spindles_detect reads them
ThreshKeys == <<"abs_pow", "rel_pow", "corr", "rms">>
AllKeys == {ThreshKeys[k] : k \in 1..Len(ThreshKeys)}
Threshs == {AllKeys} \cup {AllKeys \ {k} : k \in AllKeys}
\* the votes of a sample: 2 stands for every count below the threshold
VoteValues == {2, 3, 4}
\* the rates the float64 tables are computed for
RateSeq == <<100, 128>>

SeqIx(q, v) == CHOOSE i \in 1..Len(q) : q[i] = v
\* the sample indices the tables cover are 0..MaxIdx, and 0..MaxN for the
\* tables of spindles_detect
MaxIdx == Max(MaxN, Max(MaskN, MaxMT)) + 2
NIdx == MaxIdx + 1
NDet == MaxN + 1
NRate == Len(RateSeq)
NDur == Len(DurMsSeq)
NDist == Len(MinDistMsSeq)

\* ------------------------------------------------------------------------
\* float64 values of spindles_detect, tabulated: entry j of a table is for
\* the rate RateSeq[r] and the indices s, e that j encodes
\* ------------------------------------------------------------------------
\* k / sf
Sec(k, rate) == FDiv(FOfInt(k), FOfInt(rate))
SecAt(j) == Sec(j % NIdx, RateSeq[(j \div NIdx) + 1])
SecTab == Tabulate(SecAt, 0, NRate * NIdx - 1)
SecIx(k, rate) == (SeqIx(RateSeq, rate) - 1) * NIdx + k + 1
\* line 437: idx_start_end = np.array([[k[0], k[-1]] for k in sp]) / sf
sp_time(k, rate) == SecTab[SecIx(k, rate)]
\* line 439: sp_dur = sp_end - sp_start; entry j is for the start
\* (j \div NDet) % NDet and the end j % NDet
DurAt(j) ==
    IF (j \div NDet) % NDet <= j % NDet
    THEN FSub(SecTab[(j \div (NDet * NDet)) * NIdx + (j % NDet) + 1],
              SecTab[(j \div (NDet * NDet)) * NIdx + ((j \div NDet) % NDet) + 1])
    ELSE FZero
DurTab == Tabulate(DurAt, 0, NRate * NDet * NDet - 1)
DurIx(s, e, rate) == ((SeqIx(RateSeq, rate) - 1) * NDet + s) * NDet + e + 1
sp_dur(s, e, rate) == DurTab[DurIx(s, e, rate)]
\* the float64 of the literal ms/1000
Lit(j) == Sec(DurMsSeq[j], 1000)
LitTab == Tabulate(Lit, 1, NDur)
\* sp_dur compared with a bound of duration: -1, 0 or 1
DurCmpAt(j) == FCmp(DurTab[(j \div NDur) + 1], LitTab[(j % NDur) + 1])
DurCmpTab == Tabulate(DurCmpAt, 0, NRate * NDet * NDet * NDur - 1)
DurCmp(s, e, rate, ms) ==
    DurCmpTab[(DurIx(s, e, rate) - 1) * NDur + SeqIx(DurMsSeq, ms)]
\* line 240: min_distance = min_distance_ms / 1000. * sf
MinDistance(ms, rate) == FMul(FDiv(FOfInt(ms), FOfInt(1000)), FOfInt(rate))
MinDistAt(j) == MinDistance(MinDistMsSeq[(j % NDist) + 1],
                            RateSeq[(j \div NDist) + 1])
MinDistTab == Tabulate(MinDistAt, 0, NRate * NDist - 1)
min_distance_samples(ms, rate) ==
    MinDistTab[(SeqIx(RateSeq, rate) - 1) * NDist + SeqIx(MinDistMsSeq, ms)]
\* a variant of CloserAt: distance <= min_distance
CloserAtInclusive(j) == ~FLess(MinDistTab[(j \div NDet) + 1], FOfInt(j % NDet))
\* line 245: distance < min_distance, for a distance of j % NDet samples
CloserAt(j) == FLess(FOfInt(j % NDet), MinDistTab[(j \div NDet) + 1])
CloserTab == Tabulate(CloserAt, 0, NRate * NDist * NDet - 1)
Closer(d, ms, rate) ==
    CloserTab[((SeqIx(RateSeq, rate) - 1) * NDist
               + SeqIx(MinDistMsSeq, ms) - 1) * NDet + d + 1]

\* ------------------------------------------------------------------------
\* numpy helpers
\* ------------------------------------------------------------------------
\* np.arange(lo, hi) of integers
arange(lo, hi) == [k \in 1..Max(hi - lo, 0) |-> lo + k - 1]

RECURSIVE Insert(_, _)
Insert(q, v) == IF q = <<>> THEN <<v>>
                ELSE IF v < Head(q) THEN <<v>> \o q
                ELSE <<Head(q)>> \o Insert(Tail(q), v)
RECURSIVE np_sort(_)
np_sort(q) == IF q = <<>> THEN q ELSE Insert(np_sort(Tail(q)), Head(q))

\* np.where(mask)[0]: the 0-based positions that hold TRUE
np_where(mask) ==
    SelectSeq([j \in 1..Len(mask) |-> j - 1], LAMBDA j : mask[j + 1])

\* np.split(w, np.where(np.diff(w) != 1)[0] + 1)
np_split(w) ==
    LET cuts == SelectSeq([j \in 1..Len(w) |-> j],
                          LAMBDA j : j > 1 /\ w[j] - w[j - 1] # 1)
        starts == <<1>> \o cuts
    IN [k \in 1..Len(starts) |->
          SubSeq(w, starts[k],
                 IF k < Len(starts) THEN starts[k + 1] - 1 ELSE Len(w))]

RECURSIVE Concat(_)
Concat(qs) == IF qs = <<>> THEN <<>> ELSE Head(qs) \o Concat(Tail(qs))

\* ------------------------------------------------------------------------
\* _events_distance_fill
\* ------------------------------------------------------------------------
\* the positions j of index whose successor is further than one sample but
\* closer than min_distance
BadGaps(index, min_distance_ms, rate) ==
    SelectSeq([j \in 1..(Len(index) - 1) |-> j],
              LAMBDA j : /\ index[j + 1] - index[j] > 1
                         /\ Closer(index[j + 1] - index[j], min_distance_ms, rate))

\* a variant of Fill that takes in the two samples around the gap
FillClosed(index, j) == arange(index[j], index[j + 1] + 1)
\* line 249: np.arange(index[j] + 1, index[j + 1]), the samples of the gap
\* after position j
Fill(index, j) == arange(index[j] + 1, index[j + 1])

\* lines 247-253
events_distance_fill(index, min_distance_ms, rate) ==
    LET bad == BadGaps(index, min_distance_ms, rate)
        fill == Concat([b \in 1..Len(bad) |-> Fill(index, bad[b])])
    IN IF Len(bad) > 0 THEN np_sort(index \o fill) ELSE index

\* ------------------------------------------------------------------------
\* spindles_detect
\* ------------------------------------------------------------------------
\* a variant of trans that takes a band of 3 Hz for a wide one
transFrom3(fsp) == IF fsp[2] - fsp[1] >= 3 THEN 1 ELSE 0
\* lines 381-383: the edges handed to the sigma-band filter
trans(fsp) == IF fsp[2] - fsp[1] > 3 THEN 1 ELSE 0
SigmaBand(fsp) == <<fsp[1] + trans(fsp), fsp[2] - trans(fsp)>>

\* lines 409-412: the first key of thresh the code reads and does not find
MissingKeys(th) == SelectSeq(ThreshKeys, LAMBDA k : k \notin th)

\* line 442: good_dur
GoodDur(run, rate, dur) ==
    /\ DurCmp(run[1], run[Len(run)], rate, dur[1]) > 0
    /\ DurCmp(run[1], run[Len(run)], rate, dur[2]) < 0
\* a variant of NoGoodDur: all(good_dur)
AllGoodDur(gd) == \A k \in 1..Len(gd) : gd[k]
\* line 445: all(~good_dur)
NoGoodDur(gd) == \A k \in 1..Len(gd) : ~gd[k]

\* a variant of Percentile75x4 that takes the higher of the two order
\* statistics instead of interpolating between them
Percentile75x4Higher(a) ==
    4 * np_sort(a)[Min(((3 * (Len(a) - 1)) \div 4)
                       + (IF (3 * (Len(a) - 1)) % 4 = 0 THEN 0 ELSE 1),
                       Len(a) - 1) + 1]
\* line 471: four times np.percentile(a, 75) (linear interpolation between
\* the order statistics around position 0.75 * (len - 1))
Percentile75x4(a) ==
    LET srt == np_sort(a)
        lo == (3 * (Len(a) - 1)) \div 4
        fr == (3 * (Len(a) - 1)) % 4
        hi == Min(lo + 1, Len(a) - 1)
    IN 4 * srt[lo + 1] + fr * (srt[hi + 1] - srt[lo + 1])
\* line 472
Confidence(votes) == IF Percentile75x4(votes) = 4 * 4 THEN "high" ELSE "medium"

\* The locals of the call that is running: pc, sf, n and result belong to
\* whichever of the three functions was called, the others to one of them.
VARIABLES pc, sf, n, result,
          \* spindles_detect
          freq_sp, freq_broad, duration, min_distance, thresh, ran,
          sigma_band, idx_sum, supra, where_sp, sp, good_dur, todo, sp_conf,
          \* get_bool_vector and _index_to_events
          sp_df, idx_sp, bool_spindles, row,
          \* moving_transform
          window, step, method, beg, end, epoch, slices
detLocals == <<freq_sp, freq_broad, duration, min_distance, thresh, ran,
               sigma_band, idx_sum, supra, where_sp, sp, good_dur, todo, sp_conf>>
maskLocals == <<sp_df, idx_sp, bool_spindles, row>>
mtLocals == <<window, step, method, beg, end, epoch, slices>>
vars == <<pc, sf, n, result, detLocals, maskLocals, mtLocals>>

Running == [kind |-> "running", exc |-> "", rows |-> <<>>]
Raise(e) == [kind |-> "raise", exc |-> e, rows |-> <<>>]
ReturnNone == [kind |-> "None", exc |-> "", rows |-> <<>>]

\* the locals of a function that is not running
DetIdle ==
    /\ freq_sp = <<>> /\ freq_broad = <<>> /\ duration = <<>>
    /\ min_distance = <<>> /\ thresh = {} /\ ran = <<>> /\ sigma_band = <<>>
    /\ idx_sum = <<>> /\ supra = <<>> /\ where_sp = <<>> /\ sp = <<>>
    /\ good_dur = <<>> /\ todo = <<>> /\ sp_conf = <<>>
MaskIdle == sp_df = <<>> /\ idx_sp = <<>> /\ bool_spindles = <<>> /\ row = 0
MtIdle ==
    /\ window = 0 /\ step = 0 /\ method = "" /\ beg = <<>> /\ end = <<>>
    /\ epoch = 0 /\ slices = <<>>

\* A call of spindles_detect.  Signals of up to ShortN samples come with every
\* setting of the parameters; longer ones with the default band, a complete
\* thresh, no resampling, the wider bounds of duration and min_distance
\* either None or above 0.
DetInit ==
    /\ pc = "call"
    /\ sf \in SampFreqs
    /\ n \in 1..MaxN
    /\ freq_sp \in FreqSps
    /\ freq_broad \in FreqBroads
    /\ duration \in Durations
    /\ min_distance \in MinDistances
    /\ thresh \in Threshs
    /\ n > ShortN => /\ sf = 100
                     /\ freq_sp = <<12, 15>>
                     /\ freq_broad = <<1, 30>>
                     /\ thresh = AllKeys
                     /\ duration = <<10, 50>>
                     /\ min_distance # <<0>>
    /\ MaskIdle
    /\ MtIdle
    /\ ran = <<>>
    /\ sigma_band = <<>>
    /\ idx_sum = <<>>
    /\ supra = <<>>
    /\ where_sp = <<>>
    /\ sp = <<>>
    /\ good_dur = <<>>
    /\ todo = <<>>
    /\ sp_conf = <<>>
    /\ result = Running

\* lines 362-365: the safety check
SafetyCheck ==
    /\ pc = "call"
    /\ IF freq_sp[1] < freq_sp[2] /\ freq_broad[1] < freq_broad[2]
       THEN pc' = "resample" /\ result' = result
       ELSE pc' = "done" /\ result' = Raise("AssertionError")
    /\ UNCHANGED <<sf, n, freq_sp, freq_broad, duration, min_distance, thresh,
                   ran, sigma_band, idx_sum, supra, where_sp, sp, good_dur,
                   todo, sp_conf>>
    /\ UNCHANGED <<maskLocals, mtLocals>>

\* lines 367-373: downsample to 100 Hz
Resample ==
    /\ pc = "resample"
    /\ IF sf >= 200
       THEN sf' = 100 /\ ran' = Append(ran, "resample")
       ELSE sf' = sf /\ ran' = ran
    /\ pc' = "filter_broad"
    /\ UNCHANGED <<n, freq_sp, freq_broad, duration, min_distance, thresh,
                   sigma_band, idx_sum, supra, where_sp, sp, good_dur, todo,
                   sp_conf, result>>
    /\ UNCHANGED <<maskLocals, mtLocals>>

\* lines 375-377: the broadband filter
FilterBroad ==
    /\ pc = "filter_broad"
    /\ ran' = Append(ran, "filter_broad")
    /\ pc' = "filter_sigma"
    /\ UNCHANGED <<sf, n, freq_sp, freq_broad, duration, min_distance, thresh,
                   sigma_band, idx_sum, supra, where_sp, sp, good_dur, todo,
                   sp_conf, result>>
    /\ UNCHANGED <<maskLocals, mtLocals>>

\* lines 379-383: the sigma-band filter
FilterSigma ==
    /\ pc = "filter_sigma"
    /\ sigma_band' = SigmaBand(freq_sp)
    /\ ran' = Append(ran, "filter_sigma")
    /\ pc' = "stft"
    /\ UNCHANGED <<sf, n, freq_sp, freq_broad, duration, min_distance, thresh,
                   idx_sum, supra, where_sp, sp, good_dur, todo, sp_conf,
                   result>>
    /\ UNCHANGED <<maskLocals, mtLocals>>

\* lines 385-388: relative power from the STFT
StftPower ==
    /\ pc = "stft"
    /\ ran' = Append(ran, "stft_power")
    /\ pc' = "moving"
    /\ UNCHANGED <<sf, n, freq_sp, freq_broad, duration, min_distance, thresh,
                   sigma_band, idx_sum, supra, where_sp, sp, good_dur, todo,
                   sp_conf, result>>
    /\ UNCHANGED <<maskLocals, mtLocals>>

\* lines 390-399: moving correlation and RMS, absolute power
Moving ==
    /\ pc = "moving"
    /\ ran' = Append(ran, "moving_transform")
    /\ pc' = "hilbert"
    /\ UNCHANGED <<sf, n, freq_sp, freq_broad, duration, min_distance, thresh,
                   sigma_band, idx_sum, supra, where_sp, sp, good_dur, todo,
                   sp_conf, result>>
    /\ UNCHANGED <<maskLocals, mtLocals>>

\* lines 401-406: instantaneous frequency, an array of n - 1 values
Hilbert ==
    /\ pc = "hilbert"
    /\ ran' = Append(ran, "hilbert")
    /\ pc' = "thresholds"
    /\ UNCHANGED <<sf, n, freq_sp, freq_broad, duration, min_distance, thresh,
                   sigma_band, idx_sum, supra, where_sp, sp, good_dur, todo,
                   sp_conf, result>>
    /\ UNCHANGED <<maskLocals, mtLocals>>

\* lines 408-413: the four criteria and their sum; thresh[key] raises
\* KeyError for a key the mapping lacks
Thresholds ==
    /\ pc = "thresholds"
    /\ IF MissingKeys(thresh) # <<>>
       THEN /\ pc' = "done"
            /\ result' = Raise("KeyError")
            /\ idx_sum' = idx_sum
       ELSE /\ pc' = "where"
            /\ result' = result
            /\ idx_sum' \in [1..n -> VoteValues]
    /\ UNCHANGED <<sf, n, freq_sp, freq_broad, duration, min_distance, thresh,
                   ran, sigma_band, supra, where_sp, sp, good_dur, todo,
                   sp_conf>>
    /\ UNCHANGED <<maskLocals, mtLocals>>

\* lines 421-427: the samples with at least 3 votes
Where ==
    /\ pc = "where"
    /\ LET w == np_where([j \in 1..n |-> idx_sum[j] >= 3])
       IN /\ where_sp' = w
          /\ supra' = w
          /\ IF Len(w) = 0
             THEN pc' = "done" /\ result' = ReturnNone
             ELSE pc' = "merge" /\ result' = result
    /\ UNCHANGED <<sf, n, freq_sp, freq_broad, duration, min_distance, thresh,
                   ran, sigma_band, idx_sum, sp, good_dur, todo, sp_conf>>
    /\ UNCHANGED <<maskLocals, mtLocals>>

\* lines 429-431: merge events that are too close
Merge ==
    /\ pc = "merge"
    /\ where_sp' = IF min_distance # <<>> /\ min_distance[1] > 0
                   THEN events_distance_fill(where_sp, min_distance[1], sf)
                   ELSE where_sp
    /\ pc' = "segment"
    /\ UNCHANGED <<sf, n, freq_sp, freq_broad, duration, min_distance, thresh,
                   ran, sigma_band, idx_sum, supra, sp, good_dur, todo,
                   sp_conf, result>>
    /\ UNCHANGED <<maskLocals, mtLocals>>

\* lines 433-458: the runs, their durations and the duration filter
Segment ==
    /\ pc = "segment"
    /\ LET runs == np_split(where_sp)
           gd == [k \in 1..Len(runs) |-> GoodDur(runs[k], sf, duration)]
       IN /\ sp' = runs
          /\ good_dur' = gd
          /\ sp_conf' = [k \in 1..Len(runs) |-> ""]
          /\ todo' = SelectSeq([k \in 1..Len(runs) |-> k], LAMBDA k : gd[k])
          /\ IF NoGoodDur(gd)
             THEN pc' = "done" /\ result' = ReturnNone
             ELSE pc' = "features" /\ result' = result
    /\ UNCHANGED <<sf, n, freq_sp, freq_broad, duration, min_distance, thresh,
                   ran, sigma_band, idx_sum, supra, where_sp>>
    /\ UNCHANGED <<maskLocals, mtLocals>>

\* the positions of inst_freq (n - 1 values) that line 470 reads for a run
FreqIndex(run) == run
\* line 470: numpy raises IndexError for a position outside the array
FreqInRange(run, len) == \A k \in 1..Len(run) : FreqIndex(run)[k] < len

\* lines 463-480: one pass of the loop over the runs of good duration.
\* find_peaks finds no peak in fewer than 3 samples, and then argmax of the
\* empty prominences raises ValueError; in a longer run that is up to the
\* signal.
FeatureStep ==
    /\ pc = "features"
    /\ todo # <<>>
    /\ LET i == Head(todo)
           run == sp[i]
       IN IF ~FreqInRange(run, n - 1)
          THEN /\ pc' = "done"
               /\ result' = Raise("IndexError")
               /\ UNCHANGED <<todo, sp_conf>>
          ELSE \E has_peak \in (IF Len(run) >= 3 THEN BOOLEAN ELSE {FALSE}) :
                 /\ sp_conf' = [sp_conf EXCEPT ![i] =
                                  Confidence([k \in 1..Len(run) |-> idx_sum[run[k] + 1]])]
                 /\ IF has_peak
                    THEN pc' = pc /\ result' = result /\ todo' = Tail(todo)
                    ELSE pc' = "done" /\ result' = Raise("ValueError") /\ todo' = todo
    /\ UNCHANGED <<sf, n, freq_sp, freq_broad, duration, min_distance, thresh,
                   ran, sigma_band, idx_sum, supra, where_sp, sp, good_dur>>
    /\ UNCHANGED <<maskLocals, mtLocals>>

\* one row of the table
Row(k) == [Start |-> sp_time(sp[k][1], sf),
           End |-> sp_time(sp[k][Len(sp[k])], sf),
           Duration |-> sp_dur(sp[k][1], sp[k][Len(sp[k])], sf),
           Confidence |-> sp_conf[k],
           run |-> k]

\* lines 482-495: the table of the runs of good duration
Return ==
    /\ pc = "features"
    /\ todo = <<>>
    /\ pc' = "done"
    /\ result' = [kind |-> "table", exc |-> "",
                  rows |-> LET good == SelectSeq([k \in 1..Len(sp) |-> k],
                                                 LAMBDA k : good_dur[k])
                           IN [r \in 1..Len(good) |-> Row(good[r])]]
    /\ UNCHANGED <<sf, n, freq_sp, freq_broad, duration, min_distance, thresh,
                   ran, sigma_band, idx_sum, supra, where_sp, sp, good_dur,
                   todo, sp_conf>>
    /\ UNCHANGED <<maskLocals, mtLocals>>

DetNext == \/ SafetyCheck \/ Resample \/ FilterBroad \/ FilterSigma
           \/ StftPower \/ Moving \/ Hilbert \/ Thresholds \/ Where \/ Merge
           \/ Segment \/ FeatureStep \/ Return

\* ------------------------------------------------------------------------
\* get_bool_vector and _index_to_events
\* ------------------------------------------------------------------------
FOne == FOfInt(1)
\* line 302: sp[['Start', 'End']].values * sf, for the time of sample k
XAt(j) == FMul(SecTab[j + 1], FOfInt(RateSeq[(j \div NIdx) + 1]))
XTab == Tabulate(XAt, 0, NRate * NIdx - 1)
\* line 275: x[k, 1] + 1, and the second value of np.arange(x[k, 0], ...)
XPlusOneAt(j) == FAdd(XTab[j + 1], FOne)
XPlusOneTab == Tabulate(XPlusOneAt, 0, NRate * NIdx - 1)
\* np.arange(start, stop) of float64 has ceil(stop - start) values ...
ArangeLenAt(j) ==
    IF (j \div NIdx) % NIdx <= j % NIdx
    THEN FCeil(FSub(XPlusOneTab[(j \div (NIdx * NIdx)) * NIdx + (j % NIdx) + 1],
                    XTab[(j \div (NIdx * NIdx)) * NIdx + ((j \div NIdx) % NIdx) + 1]))
    ELSE 0
ArangeLenTab == Tabulate(ArangeLenAt, 0, NRate * NIdx * NIdx - 1)
\* ... the first is start, the second start + 1, and value i is
\* start + i * delta with delta the difference of the first two
ArangeDeltaAt(j) == FSub(XPlusOneTab[j + 1], XTab[j + 1])
ArangeDeltaTab == Tabulate(ArangeDeltaAt, 0, NRate * NIdx - 1)
\* line 276: astype(int) of value i of the arange that starts at sample s;
\* entry j is for i = j % (NIdx + 1)
ArangeIntAt(j) ==
    IF j % (NIdx + 1) = 0 THEN FTrunc(XTab[(j \div (NIdx + 1)) + 1])
    ELSE IF j % (NIdx + 1) = 1 THEN FTrunc(XPlusOneTab[(j \div (NIdx + 1)) + 1])
    ELSE FTrunc(FAdd(XTab[(j \div (NIdx + 1)) + 1],
                     FMul(FOfInt(j % (NIdx + 1)),
                          ArangeDeltaTab[(j \div (NIdx + 1)) + 1])))
ArangeIntTab == Tabulate(ArangeIntAt, 0, NRate * NIdx * (NIdx + 1) - 1)

\* lines 274-276, one row: np.arange(x[k, 0], x[k, 1] + 1).astype(int) for a
\* row that starts at sample s and ends at sample e
index_of_row(s, e, rate) ==
    [i \in 1..ArangeLenTab[(SecIx(s, rate) - 1) * NIdx + e + 1] |->
        ArangeIntTab[(SecIx(s, rate) - 1) * (NIdx + 1) + i]]

\* the tables of events handed to get_bool_vector: at most MaxEvents rows
\* <<start, end>> of samples inside the signal, in order and apart, as
\* spindles_detect returns them (their Start and End columns hold the times
\* sp_time(start, sf) and sp_time(end, sf))
Ranges(len) == {<<s, e>> : s \in 0..(len - 1), e \in 0..(len - 1)}
RECURSIVE EventTables(_, _, _)
EventTables(len, lo, rows) ==
    {<<>>} \cup
    (IF rows = 0 THEN {}
     ELSE UNION {{<<r>> \o t : t \in EventTables(len, r[2] + 2, rows - 1)} :
                 r \in {q \in Ranges(len) : lo <= q[1] /\ q[1] <= q[2]}})

Returned == [kind |-> "return", exc |-> "", rows |-> <<>>]

MaskInit ==
    /\ pc = "gbv_call"
    /\ sf \in {RateSeq[r] : r \in 1..NRate}
    /\ n \in 1..MaskN
    /\ sp_df \in EventTables(n, 0, MaxEvents)
    /\ idx_sp = <<>>
    /\ bool_spindles = <<>>
    /\ row = 0
    /\ result = Running
    /\ DetIdle
    /\ MtIdle

\* lines 298-302: the asserts hold for a table of spindles_detect; the call
\* of _index_to_events starts with an empty index
GbvCall ==
    /\ pc = "gbv_call"
    /\ pc' = "index_to_events"
    /\ idx_sp' = <<>>
    /\ row' = 0
    /\ UNCHANGED <<sf, n, result, sp_df, bool_spindles, detLocals, mtLocals>>

\* lines 273-275: one pass of the loop over the rows
IndexToEventsStep ==
    /\ pc = "index_to_events"
    /\ row < Len(sp_df)
    /\ idx_sp' = idx_sp \o index_of_row(sp_df[row + 1][1], sp_df[row + 1][2], sf)
    /\ row' = row + 1
    /\ UNCHANGED <<pc, sf, n, result, sp_df, bool_spindles, detLocals, mtLocals>>

\* lines 303-305: bool_spindles[idx_sp] = 1 raises IndexError for an index
\* outside the data
GbvAssign ==
    /\ pc = "index_to_events"
    /\ row = Len(sp_df)
    /\ pc' = "done"
    /\ IF \E j \in 1..Len(idx_sp) : idx_sp[j] >= n
       THEN /\ result' = Raise("IndexError")
            /\ bool_spindles' = [j \in 1..n |-> 0]
       ELSE /\ result' = Returned
            /\ bool_spindles' =
                 [j \in 1..n |-> IF \E q \in 1..Len(idx_sp) : idx_sp[q] = j - 1
                                 THEN 1 ELSE 0]
    /\ UNCHANGED <<sf, n, sp_df, idx_sp, row, detLocals, mtLocals>>

MaskNext == GbvCall \/ IndexToEventsStep \/ GbvAssign

\* ------------------------------------------------------------------------
\* moving_transform
\* ------------------------------------------------------------------------
\* window and step in ms (the float64 handed to the code is the literal
\* ms/1000), and the methods: the last one fails the safety check
WindowMsSeq == <<20, 40>>
StepMsSeq == <<0, 20>>
Methods == {"rms", "corr", "median"}
NStep == Len(StepMsSeq)
NWindow == Len(WindowMsSeq)

\* lines 96-97: step, with 1 / sf for a step of 0; entry j is for the rate
\* RateSeq[(j \div NStep) + 1]
StepAt(j) == IF StepMsSeq[(j % NStep) + 1] = 0
             THEN FDiv(FOne, FOfInt(RateSeq[(j \div NStep) + 1]))
             ELSE Sec(StepMsSeq[(j % NStep) + 1], 1000)
StepTab == Tabulate(StepAt, 0, NRate * NStep - 1)
StepIx(ms, rate) == (SeqIx(RateSeq, rate) - 1) * NStep + SeqIx(StepMsSeq, ms)
\* line 99: halfdur = window / 2
HalfdurAt(j) == FDiv(Sec(WindowMsSeq[j], 1000), FOfInt(2))
HalfdurTab == Tabulate(HalfdurAt, 1, NWindow)
\* lines 101 and 103: idx = np.arange(0, total_dur, step) has
\* ceil(total_dur / step) values; entry j is for a signal of j % NIdx samples
IdxSizeAt(j) ==
    FCeil(FDiv(SecTab[((j \div NIdx) \div NStep) * NIdx + (j % NIdx) + 1],
               StepTab[(j \div NIdx) + 1]))
IdxSizeTab == Tabulate(IdxSizeAt, 0, NRate * NStep * NIdx - 1)
idx_size(len, ms, rate) == IdxSizeTab[(StepIx(ms, rate) - 1) * NIdx + len + 1]
\* value i of idx: 0, step, and then 0 + i * delta with delta = step - 0
IdxAt(j) == IF j % NIdx = 0 THEN FZero
            ELSE IF j % NIdx = 1 THEN StepTab[(j \div NIdx) + 1]
            ELSE FMul(FOfInt(j % NIdx), StepTab[(j \div NIdx) + 1])
IdxTab == Tabulate(IdxAt, 0, NRate * NStep * NIdx - 1)
\* line 107: ((idx - halfdur) * sf).astype(int), and line 108: a difference
\* below 0 gives an index <= 0, which becomes 0; entry j is for the window
\* WindowMsSeq[(j % NWindow) + 1] and the value IdxTab[(j \div NWindow) + 1]
BegAt(j) ==
    IF FCmp(IdxTab[(j \div NWindow) + 1], HalfdurTab[(j % NWindow) + 1]) <= 0
    THEN 0
    ELSE FTrunc(FMul(FSub(IdxTab[(j \div NWindow) + 1],
                          HalfdurTab[(j % NWindow) + 1]),
                     FOfInt(RateSeq[((j \div NWindow) \div (NStep * NIdx)) + 1])))
BegTab == Tabulate(BegAt, 0, NRate * NStep * NIdx * NWindow - 1)
\* line 109: ((idx + halfdur) * sf).astype(int)
EndAt(j) ==
    FTrunc(FMul(FAdd(IdxTab[(j \div NWindow) + 1], HalfdurTab[(j % NWindow) + 1]),
                FOfInt(RateSeq[((j \div NWindow) \div (NStep * NIdx)) + 1])))
EndTab == Tabulate(EndAt, 0, NRate * NStep * NIdx * NWindow - 1)
WinIx(i, wms, sms, rate) ==
    ((StepIx(sms, rate) - 1) * NIdx + i) * NWindow + SeqIx(WindowMsSeq, wms)

MtInit ==
    /\ pc = "mt_call"
    /\ sf \in {RateSeq[r] : r \in 1..NRate}
    /\ n \in 1..MaxMT
    /\ window \in {WindowMsSeq[w] : w \in 1..NWindow}
    /\ step \in {StepMsSeq[w] : w \in 1..NStep}
    /\ method \in Methods
    /\ beg = <<>>
    /\ end = <<>>
    /\ epoch = 0
    /\ slices = <<>>
    /\ result = Running
    /\ DetIdle
    /\ MaskIdle

\* lines 90-94: the safety checks (y, when given, has the size of x)
MtSafetyCheck ==
    /\ pc = "mt_call"
    /\ IF method \in {"covar", "corr", "rms"}
       THEN pc' = "mt_bounds" /\ result' = result
       ELSE pc' = "done" /\ result' = Raise("AssertionError")
    /\ UNCHANGED <<sf, n, detLocals, maskLocals, mtLocals>>

\* lines 96-111: the bounds of the epochs; last = n - 1
MtBounds ==
    /\ pc = "mt_bounds"
    /\ beg' = [q \in 1..idx_size(n, step, sf) |->
                 BegTab[WinIx(q - 1, window, step, sf)]]
    /\ end' = [q \in 1..idx_size(n, step, sf) |->
                 Min(EndTab[WinIx(q - 1, window, step, sf)], n - 1)]
    /\ epoch' = 0
    /\ slices' = <<>>
    /\ pc' = "mt_loop"
    /\ UNCHANGED <<sf, n, result, window, step, method, detLocals, maskLocals>>

\* x[b:e]: the samples b, ..., e - 1
Slice(b, e) == {j \in 0..(n - 1) : b <= j /\ j < e}

\* lines 126-131: one pass of the loop, which hands func the samples
\* x[beg[i]:end[i]]
MtEpoch ==
    /\ pc = "mt_loop"
    /\ epoch < Len(beg)
    /\ slices' = Append(slices, Slice(beg[epoch + 1], end[epoch + 1]))
    /\ epoch' = epoch + 1
    /\ UNCHANGED <<pc, sf, n, result, window, step, method, beg, end,
                   detLocals, maskLocals>>

\* lines 134-141: the result (the interpolation reads out and t only)
MtReturn ==
    /\ pc = "mt_loop"
    /\ epoch = Len(beg)
    /\ pc' = "done"
    /\ result' = Returned
    /\ UNCHANGED <<sf, n, window, step, method, beg, end, epoch, slices,
                   detLocals, maskLocals>>

MtNext == MtSafetyCheck \/ MtBounds \/ MtEpoch \/ MtReturn

\* ------------------------------------------------------------------------
\* Specifications: one call of spindles_detect, of get_bool_vector, of
\* moving_transform
\* ------------------------------------------------------------------------
Init == DetInit
Next == DetNext
Spec == Init /\ [][Next]_vars
SpecMask == MaskInit /\ [][MaskNext]_vars
SpecMT == MtInit /\ [][MtNext]_vars

\* ------------------------------------------------------------------------
\* Properties of spindles_detect (specification Spec)
\* ------------------------------------------------------------------------
IsTable == pc = "done" /\ result.kind = "table"
First(run) == run[1]
Last(run) == run[Len(run)]
Merging == min_distance # <<>> /\ min_distance[1] > 0
Samples(q) == {q[j] : j \in 1..Len(q)}
Between(a, b) == {v \in 0..MaxIdx : a < v /\ v < b}

\* C1, as the claim states it: in a returned table every event's duration,
\* the end index minus the start index of its run divided by sf, lies
\* strictly between duration_min and duration_max (both in ms here), so that
\* a run of exactly duration_min or duration_max is never returned.
C1_DurationStrictlyInside ==
    IsTable =>
      \A r \in 1..Len(result.rows) :
        LET run == sp[result.rows[r].run]
        IN /\ duration[1] * sf < (Last(run) - First(run)) * 1000
           /\ (Last(run) - First(run)) * 1000 < duration[2] * sf

\* the gaps of the candidate indices the merge step was handed: the
\* positions j of supra whose successor is not the next sample
Gaps == {j \in 1..(Len(supra) - 1) : supra[j + 1] - supra[j] > 1}
GapFilled(j) == Between(supra[j], supra[j + 1]) \subseteq Samples(where_sp)
GapKept(j) == Between(supra[j], supra[j + 1]) \cap Samples(where_sp) = {}

C4_MissingFieldFailsBeforeAnyStage == thresh # AllKeys => ran = <<>>

\* C5: in a returned table the events are in strictly increasing order of
\* Start, and the End of each is strictly less than the Start of the next.
C5_OrderedAndDisjoint ==
    IsTable =>
      \A r \in 1..(Len(result.rows) - 1) :
        /\ FLess(result.rows[r].Start, result.rows[r + 1].Start)
        /\ FLess(result.rows[r].End, result.rows[r + 1].Start)

\* C5's case: a table of two events, one of them made by the merge step
C5_Witness ==
    /\ IsTable
    /\ Len(result.rows) >= 2
    /\ Merging
    /\ Len(where_sp) > Len(supra)

C8_NeverOutOfRange == ~(pc = "done" /\ result = Raise("IndexError"))

\* the votes of the samples of run q, and how many of them are 4
Votes(q) == [j \in 1..Len(sp[q]) |-> idx_sum[sp[q][j] + 1]]
Count4(q) == Cardinality({j \in 1..Len(sp[q]) : Votes(q)[j] = 4})
Rated == {q \in 1..Len(sp_conf) : sp_conf[q] # ""}

\* C9, amended: the Confidence of a run of m samples is 'high' exactly when
\* the 75th percentile of its votes equals 4, which is when at least (m+3)/4
\* of its samples have a vote of 4, and 'medium' otherwise.
C9_HighIffPercentileIs4 ==
    \A q \in Rated :
      /\ sp_conf[q] \in {"high", "medium"}
      /\ sp_conf[q] = "high" <=> 4 * Count4(q) >= Len(sp[q]) + 3

\* C9, as the claim states it: 'high' exactly when at least a quarter of the
\* samples of the run have a vote of 4.
C9_HighIffQuarterIs4 ==
    \A q \in Rated :
      sp_conf[q] = "high" <=> 4 * Count4(q) >= Len(sp[q])

\* C9's case: a table with a run rated 'high' that holds other votes than 4
C9_Witness ==
    /\ IsTable
    /\ \E q \in Rated : sp_conf[q] = "high" /\ Count4(q) < Len(sp[q])

\* ------------------------------------------------------------------------
\* Properties of get_bool_vector (specification SpecMask)
\* ------------------------------------------------------------------------
\* line 434 applied to the mask: the maximal runs of marked samples, each as
\* <<start, end>>
Regroup(mask) ==
    LET w == np_where([j \in 1..Len(mask) |-> mask[j] = 1])
    IN IF w = <<>> THEN <<>>
       ELSE [q \in 1..Len(np_split(w)) |->
               <<First(np_split(w)[q]), Last(np_split(w)[q])>>]
\* the samples the rows of a table cover, in order
Covered(tbl) == Concat([q \in 1..Len(tbl) |-> arange(tbl[q][1], tbl[q][2] + 1)])

\* C6, as the claim states it: get_bool_vector returns a mask whose runs are
\* the rows of the table, and _index_to_events the flat sorted indices the
\* rows cover.
C6_RoundTrip ==
    pc = "done" => /\ result = Returned
                   /\ idx_sp = Covered(sp_df)
                   /\ Regroup(bool_spindles) = sp_df

\* ------------------------------------------------------------------------
\* Properties of moving_transform (specification SpecMT)
\* ------------------------------------------------------------------------
\* C10, as the claim states it: every epoch is computed over all samples from
\* its lower bound to its upper bound inclusive, both clipped to [0, n-1], so
\* that sample n-1 belongs to every epoch whose upper bound reaches it.
C10_WindowInclusive ==
    \A q \in 1..Len(slices) :
      slices[q] = {j \in 0..(n - 1) : beg[q] <= j /\ j <= end[q]}

=============================================================================
